---- MODULE Spec2Model ----
(***************************************************************************)
(* r256.h: 256-bit (128.128) signed fixed-point arithmetic.                *)
(*                                                                         *)
(* The library is modelled at a reduced word width: R256_U64 is HalfBits   *)
(* bits wide and R256_U128 is Bits = 2 * HalfBits bits wide, so that an    *)
(* R256 value has 2 * Bits bits.  Every operator below is the source       *)
(* function with 64 replaced by HalfBits and 128 by Bits; all wrap-arounds *)
(* of the C unsigned types are kept (% B64, % B128).                       *)
(***************************************************************************)
EXTENDS Integers, Sequences, FiniteSets, TLC

VARIABLES
    build,     \* which r256__clz128 the preprocessor selected
    a, b,      \* operands
    other,     \* third operand of the order checks
    count,     \* int argument: shift amount, or the integer of r256FromInt
    opt,       \* R256ToStringFormat passed to the to-string functions
    dstSize,   \* size of the destination character buffer
    op,        \* the public function that ran last
    dst,       \* destination R256
    buf,       \* memory of the destination string from dst[0] on
    ret,       \* int result: return value, or Newton steps of the roots
    endptr,    \* *endptr of r256FromString: index of the first unused char
    called,    \* internal division routines the last call went into
    assertOk,  \* no R256_ASSERT failed during the last call
    mem,       \* the R256 objects the pointer arguments can point to
    dstAt      \* the object the last call's dst pointed to

vars == <<build, a, b, other, count, opt, dstSize, op, dst, buf, ret, endptr,
          called, assertOk, mem, dstAt>>

inputs == <<build, a, b, other, count, opt, dstSize, mem, dstAt>>

-----------------------------------------------------------------------------
(* Widths and operand sets *)

HalfBits == 2

Span == 4

DivSpan == 2

Bits == 2 * HalfBits

B64 == 2 ^ HalfBits

B128 == 2 ^ Bits

SignBit == 2 ^ (Bits - 1)

U64 == 0 .. (B64 - 1)

U128 == 0 .. (B128 - 1)

R256 == [lo : U128, hi : U128]

\* Lanes within k of zero, of the sign boundary and of all-ones.
Edge(k) == {x \in U128 : \/ x < k
                         \/ x >= B128 - k
                         \/ (x >= SignBit - k /\ x < SignBit + k)}

Lane == Edge(Span)

Operands == [lo : Lane, hi : Lane]

\* Operands of the division checks that run on every build.
DivOperands == [lo : Edge(DivSpan), hi : Edge(DivSpan)]

\* The raw two's-complement integer hi * 2^Bits + lo.
Raw(v) == v.hi * B128 + v.lo

\* The signed integer a bit pattern stands for.
Signed(v) == IF v.hi >= SignBit THEN Raw(v) - B128 * B128 ELSE Raw(v)

\* Magnitude of the signed value (min has magnitude 2^(2*Bits-1)).
Mag(v) == IF Signed(v) < 0 THEN 0 - Signed(v) ELSE Signed(v)

-----------------------------------------------------------------------------
(* C integer operators on R256_U128 / R256_U64 *)

Not128(x) == B128 - 1 - x

Not64(x) == B64 - 1 - x

Shl128(x, n) == (x * (2 ^ n)) % B128

Shr128(x, n) == x \div (2 ^ n)

\* x << n and x >> n on R256_U128 with a count the C standard leaves
\* undefined (n < 0 or n >= Bits): the x86-64 code takes the count mod Bits.
CShl128(x, n) == Shl128(x, n % Bits)

CShr128(x, n) == Shr128(x, n % Bits)

RECURSIVE BitOr(_, _)
BitOr(x, y) ==
    IF x = 0 THEN y
    ELSE IF y = 0 THEN x
    ELSE (IF x % 2 = 1 \/ y % 2 = 1 THEN 1 ELSE 0)
         + 2 * BitOr(x \div 2, y \div 2)

Lo64(x) == x % B64

Hi64(x) == (x \div B64) % B64

-----------------------------------------------------------------------------
(* Constants *)

R256_min == [lo |-> 0, hi |-> SignBit]

R256_max == [lo |-> B128 - 1, hi |-> SignBit - 1]

R256_smallest == [lo |-> 1, hi |-> 0]

R256_zero == [lo |-> 0, hi |-> 0]

R256_one == [lo |-> 0, hi |-> 1]

-----------------------------------------------------------------------------
(* Signed wide integer core *)

r256IsNeg(v) == v.hi >= SignBit

r256__neg_keepLo(src) ==
    [lo |-> src.lo, hi |-> (Not128(src.hi) + 1) % B128]

r256__neg(src) ==
    IF src.lo # 0
    THEN [lo |-> (Not128(src.lo) + 1) % B128, hi |-> Not128(src.hi)]
    ELSE [lo |-> 0, hi |-> (Not128(src.hi) + 1) % B128]

r256Neg(v) == r256__neg(v)

r256Add_noCarry(x, y) ==
    [lo |-> (x.lo + y.lo) % B128, hi |-> (x.hi + y.hi) % B128]

r256Add(x, y) ==
    LET r == (x.lo + y.lo) % B128
        carry == IF r < x.lo THEN 1 ELSE 0
    IN [lo |-> r, hi |-> (x.hi + y.hi + carry) % B128]

r256Sub_noBorrow(x, y) ==
    [lo |-> (x.lo + B128 - y.lo) % B128, hi |-> (x.hi + B128 - y.hi) % B128]

r256Sub(x, y) ==
    LET r == (x.lo + B128 - y.lo) % B128
        borrow == IF r > x.lo THEN 1 ELSE 0
    IN [lo |-> r, hi |-> (x.hi + 2 * B128 - y.hi - borrow) % B128]

r256Copy(src) == src

\* (R256_S128)x: the same bits read as a signed integer.
S128(x) == IF x >= SignBit THEN x - B128 ELSE x

\* (R256_S128)x >> k: the compilers shift a signed value arithmetically.
Sar128(x, k) == (S128(x) \div (2 ^ k)) % B128

r256Cmp_unsignedHi(x, y) ==
    IF x.hi = y.hi
    THEN (IF x.lo = y.lo THEN 0 ELSE IF x.lo > y.lo THEN 1 ELSE 0 - 1)
    ELSE IF x.hi > y.hi THEN 1 ELSE 0 - 1

r256Cmp(x, y) ==
    IF x.hi = y.hi
    THEN (IF x.lo = y.lo THEN 0 ELSE IF x.lo > y.lo THEN 1 ELSE 0 - 1)
    ELSE IF S128(x.hi) > S128(y.hi) THEN 1 ELSE 0 - 1

RECURSIVE BitXor(_, _)
BitXor(x, y) ==
    IF x = 0 THEN y
    ELSE IF y = 0 THEN x
    ELSE (IF (x % 2) # (y % 2) THEN 1 ELSE 0)
         + 2 * BitXor(x \div 2, y \div 2)

r256Abs_noAdjust(v) ==
    LET sign == Sar128(v.hi, Bits - 1)
    IN [lo |-> BitXor(v.lo, sign), hi |-> BitXor(v.hi, sign)]

r256Abs(v) ==
    LET sign == Sar128(v.hi, Bits - 1)
        inv == [lo |-> BitXor(v.lo, sign), hi |-> BitXor(v.hi, sign)]
    IN r256Sub(inv, [lo |-> sign, hi |-> sign])

r256Nabs(v) ==
    LET sign == Sar128(v.hi, Bits - 1)
        inv == [lo |-> BitXor(v.lo, sign), hi |-> BitXor(v.hi, sign)]
    IN r256Sub([lo |-> sign, hi |-> sign], inv)

r256Floor(v) == [lo |-> 0, hi |-> v.hi]

r256Ceil_noCarry(v) == [lo |-> 0, hi |-> v.hi]

r256Ceil(v) ==
    [lo |-> 0, hi |-> (v.hi + (IF v.lo # 0 THEN 1 ELSE 0)) % B128]

r256Round_halfUp(v) ==
    [lo |-> 0, hi |-> (v.hi + (IF v.lo >= SignBit THEN 1 ELSE 0)) % B128]

\* v->lo >= (1 << 127) + (hi < 0): + binds tighter than >=.
r256Round(v) ==
    [lo |-> 0,
     hi |-> (v.hi + (IF v.lo >= (SignBit + (IF S128(v.hi) < 0 THEN 1 ELSE 0))
                               % B128
                     THEN 1 ELSE 0)) % B128]

\* R256_S64 values, and (R256_S64)x: the low 64 bits read as signed.
Int64 == (0 - (B64 \div 2)) .. ((B64 \div 2) - 1)

S64(x) == IF (x % B64) >= (B64 \div 2) THEN (x % B64) - B64 ELSE x % B64

r256FromInt(v) == [lo |-> 0, hi |-> v % B128]

r256ToInt_floor(v) == {S64(v.hi)}

\* The set of values the call can return: one value, except that the signed
\* addition (R256_S64)v->hi + 1 overflows for the largest R256_S64, which
\* the language leaves undefined.
r256ToInt(v) ==
    IF S128(v.hi) < 0
    THEN (IF v.lo # 0 /\ S64(v.hi) = (B64 \div 2) - 1
          THEN Int64
          ELSE {S64(v.hi) + (IF v.lo # 0 THEN 1 ELSE 0)})
    ELSE {S64(v.hi)}

-----------------------------------------------------------------------------
(* Limb primitives *)

\* 128*128->256
r256__umul256(x, y) ==
    LET alo == Lo64(x)
        ahi == Hi64(x)
        blo == Lo64(y)
        bhi == Hi64(y)
        p0 == alo * blo
        p1 == alo * bhi
        p2 == ahi * blo
        p3 == ahi * bhi
        carry == (Lo64(p1) + Lo64(p2) + Shr128(p0, HalfBits)) \div B64
        \* (R256_U64)(p1 >> 64) + (R256_U64)(p2 >> 64) is a sum of two
        \* R256_U64 values and wraps at 2^HalfBits before it is widened.
        mid == (Hi64(p1) + Hi64(p2)) % B64
    IN [lo |-> (p0 + ((p1 + p2) % B128) * B64) % B128,
        hi |-> (p3 + mid + carry) % B128]

r256__ucmp(x, y) ==
    IF x.hi # y.hi
    THEN (IF x.hi > y.hi THEN 1 ELSE 0 - 1)
    ELSE IF x.lo = y.lo THEN 0
         ELSE IF x.lo > y.lo THEN 1 ELSE 0 - 1

r256__umul_noCross(x, y) ==
    LET m0 == r256__umul256(x.lo, y.lo)
        round == [lo |-> Shr128(m0.lo, Bits - 1), hi |-> 0]
        s0 == r256Add([lo |-> m0.hi, hi |-> 0], round)
        s1 == r256Add(s0, r256__umul256(x.hi, y.lo))
        m3 == r256__umul256(x.hi, y.hi)
    IN r256Add(s1, [lo |-> 0, hi |-> m3.lo])

r256__umul(x, y) ==
    LET m0 == r256__umul256(x.lo, y.lo)
        round == [lo |-> Shr128(m0.lo, Bits - 1), hi |-> 0]
        s0 == r256Add([lo |-> m0.hi, hi |-> 0], round)
        s1 == r256Add(s0, r256__umul256(x.hi, y.lo))
        s2 == r256Add(s1, r256__umul256(x.lo, y.hi))
        m3 == r256__umul256(x.hi, y.hi)
    IN r256Add(s2, [lo |-> 0, hi |-> m3.lo])

\* Logical left shift by amount mod 256.
r256Shl(src, amount) ==
    LET n == amount % (2 * Bits)
    IN IF n >= Bits
       THEN [lo |-> 0, hi |-> Shl128(src.lo, n - Bits)]
       ELSE IF n # 0
       THEN [lo |-> Shl128(src.lo, n),
             hi |-> BitOr(Shl128(src.hi, n), Shr128(src.lo, Bits - n))]
       ELSE src

\* Logical right shift by amount mod 256.
r256Shr(src, amount) ==
    LET n == amount % (2 * Bits)
    IN IF n >= Bits
       THEN [lo |-> Shr128(src.hi, n - Bits), hi |-> 0]
       ELSE IF n # 0
       THEN [lo |-> BitOr(Shr128(src.lo, n), Shl128(src.hi, Bits - n)),
             hi |-> Shr128(src.hi, n)]
       ELSE src

r256Sar_logical(src, amount) == r256Shr(src, amount)

\* Arithmetic right shift by amount mod 256.  (R256_S128)r[1] << k keeps the
\* low 128 bits of the product, as the compilers define it.
r256Sar(src, amount) ==
    LET n == amount % (2 * Bits)
    IN IF n >= Bits
       THEN [lo |-> Sar128(src.hi, n - Bits), hi |-> Sar128(src.hi, Bits - 1)]
       ELSE IF n # 0
       THEN [lo |-> BitOr(Shr128(src.lo, n), Shl128(src.hi, Bits - n)),
             hi |-> Sar128(src.hi, n)]
       ELSE src

\* Number of bits needed to write x (0 for x = 0).
RECURSIVE BitLen(_)
BitLen(x) == IF x = 0 THEN 0 ELSE 1 + BitLen(x \div 2)

\* __builtin_clzll on an R256_U64; the result for 0 is undefined: the bsr
\* sequence gives HalfBits - 1, lzcnt gives HalfBits.
clzll(x) ==
    IF x # 0 THEN HalfBits - BitLen(x)
    ELSE IF build = "gnuc_bsr" THEN HalfBits - 1 ELSE HalfBits

\* R256_STDC_ONLY branch: binary search with steps 64, 32, ..., 1.
RECURSIVE clz128_stdc(_, _, _)
clz128_stdc(x, n, step) ==
    IF step = 0 THEN n - x
    ELSE LET y == Shr128(x, step)
         IN IF y # 0
            THEN clz128_stdc(y, n - step, step \div 2)
            ELSE clz128_stdc(x, n, step \div 2)

\* Largest power of two below n (64 for n = 128).
RECURSIVE TopStep(_, _)
TopStep(n, s) == IF 2 * s >= n THEN s ELSE TopStep(n, 2 * s)

r256__clz128(x) ==
    IF build = "stdc"
    THEN clz128_stdc(x, Bits, TopStep(Bits, 1))
    ELSE IF build = "clang"
    THEN (IF Hi64(x) # 0 THEN clzll(Hi64(x))
          ELSE IF Lo64(x) # 0 THEN HalfBits + clzll(Lo64(x))
          ELSE Bits)
    ELSE (IF x # 0
          THEN clzll(Hi64(x))
               + (IF Hi64(x) # 0 THEN 0 ELSE clzll(Lo64(x)) + HalfBits)
          ELSE Bits)

\* The refine1/refine0 loops of r256__udiv256 on R256_U64 digits.
RECURSIVE r256__udiv256_refine(_, _, _, _, _)
r256__udiv256_refine(q, r, d0, d1, nlow) ==
    IF q * d0 > r * B64 + nlow
    THEN IF r < (Not64(d1) + 1) % B64
         THEN r256__udiv256_refine((q + B64 - 1) % B64, r + d1, d0, d1, nlow)
         ELSE (q + B64 - 1) % B64
    ELSE q

\* One quotient digit of r256__udiv256 after its refinement: the digit q,
\* the remainder digits tmp left by the subtraction, and the assertion.
r256__udiv256_sub(q, nh, nm, nl, d1, d0) ==
    [q |-> q,
     tmp |-> (nm * B64 + nl + 2 * B128
              - ((q * d0 + (((q * d1) * B64) % B128)) % B128)) % B128,
     ok |-> nh <= d1]

\* One quotient digit of r256__udiv256: the estimate and its refinement.
r256__udiv256_digit(nh, nm, nl, d1, d0) ==
    IF nh < d1
    THEN r256__udiv256_sub(
             r256__udiv256_refine(((nh * B64 + nm) \div d1) % B64,
                                  ((nh * B64 + nm) % d1) % B64, d0, d1, nl),
             nh, nm, nl, d1, d0)
    ELSE r256__udiv256_sub(
             r256__udiv256_refine(B64 - 1, (nm + d1) % B64, d0, d1, nl),
             nh, nm, nl, d1, d0)

\* The second digit of r256__udiv256 and its results.
r256__udiv256_second(first, second, shift, pre) ==
    [q |-> first.q * B64 + second.q,
     rem |-> CShr128(second.tmp, shift),
     ok |-> pre /\ first.ok /\ second.ok]

r256__udiv256_first(first, n0, d1, d0, shift, pre) ==
    r256__udiv256_second(first,
        r256__udiv256_digit(Hi64(first.tmp), Lo64(first.tmp), n0, d1, d0),
        shift, pre)

\* r256__udiv256 after the normalisation: t is the shifted numerator, dn
\* the shifted divisor.
r256__udiv256_normed(t, dn, shift, pre) ==
    r256__udiv256_first(
        r256__udiv256_digit(Hi64(t.hi), Lo64(t.hi), Hi64(t.lo),
                            Hi64(dn), Lo64(dn)),
        Lo64(t.lo), Hi64(dn), Lo64(dn), shift, pre)

r256__udiv256_shift(nlo, nhi, d, shift) ==
    IF shift # 0
    THEN r256__udiv256_normed(r256Shl([lo |-> nlo, hi |-> nhi], shift),
                              CShl128(d, shift), shift, d # 0 /\ nhi < d)
    ELSE r256__udiv256_normed([lo |-> nlo, hi |-> nhi], d, shift,
                              d # 0 /\ nhi < d)

\* 256/128->128.  q, rem: the results; ok: every R256_ASSERT evaluated held.
r256__udiv256(nlo, nhi, d) ==
    r256__udiv256_shift(nlo, nhi, d, r256__clz128(d))

\* Shift d left until the high bit is set, and shift n left by the same
\* amount.  ovf: the non-zero return; n3: the extra high word *n2.
r256__norm_hi(n, d, shift) ==
    IF shift # 0
    THEN [ovf |-> FALSE,
          n |-> [lo |-> CShl128(n.lo, shift),
                 hi |-> BitOr(CShl128(n.hi, shift),
                              CShr128(n.lo, Bits - shift))],
          d |-> [lo |-> CShl128(d.lo, shift),
                 hi |-> BitOr(CShl128(d.hi, shift),
                              CShr128(d.lo, Bits - shift))],
          n3 |-> CShr128(n.hi, Bits - shift)]
    ELSE [ovf |-> FALSE, n |-> n, d |-> d, n3 |-> 0]

r256__norm_lo(n, d, shift) ==
    IF r256__clz128(n.hi) <= shift
    THEN [ovf |-> TRUE, n |-> n, d |-> d, n3 |-> 0]
    ELSE IF shift # 0
    THEN [ovf |-> FALSE,
          n |-> [lo |-> 0, hi |-> CShl128(n.lo, shift)],
          d |-> [lo |-> 0, hi |-> CShl128(d.lo, shift)],
          n3 |-> BitOr(CShl128(n.hi, shift), CShr128(n.lo, Bits - shift))]
    ELSE [ovf |-> FALSE,
          n |-> [lo |-> 0, hi |-> n.lo],
          d |-> [lo |-> 0, hi |-> d.lo],
          n3 |-> n.hi]

r256__norm(n, d) ==
    IF d.hi # 0
    THEN r256__norm_hi(n, d, r256__clz128(d.hi))
    ELSE r256__norm_lo(n, d, r256__clz128(d.lo))

\* The refine loops of r256__udiv and r256__umod on R256_U128 digits:
\* q is compared through r256__umul256(q, d0) against t0 = (t0hi, t0lo).
RECURSIVE r256__udiv_refine(_, _, _, _, _)
r256__udiv_refine(q, t0hi, t0lo, d0, d1) ==
    IF r256__ucmp(r256__umul256(q, d0), [lo |-> t0lo, hi |-> t0hi]) > 0
    THEN IF t0hi < (Not128(d1) + 1) % B128
         THEN r256__udiv_refine((q + B128 - 1) % B128, t0hi + d1, t0lo, d0, d1)
         ELSE (q + B128 - 1) % B128
    ELSE q

\* The estimate of a quotient digit of r256__udiv / r256__umod: the
\* result of r256__udiv256, or all ones when the top digits are equal.
r256__udiv_estimate(nh, nm, d1) ==
    IF nh < d1 THEN r256__udiv256(nm, nh, d1)
    ELSE [q |-> B128 - 1, rem |-> (nm + d1) % B128, ok |-> TRUE]

\* second digit of r256__udiv
r256__udiv_second(nm, qhi, ok1, tmp, dv0) ==
    [q |-> [lo |-> r256__udiv_refine(dv0.q, dv0.rem, 0, nm.d.lo, nm.d.hi),
            hi |-> qhi],
     ok |-> ok1 /\ tmp.hi <= nm.d.hi /\ dv0.ok]

\* the remainder n2:n1 left by the first digit of r256__udiv
r256__udiv_rem(nm, qhi, ok1, tmp) ==
    r256__udiv_second(nm, qhi, ok1, tmp,
                      r256__udiv_estimate(tmp.hi, tmp.lo, nm.d.hi))

r256__udiv_qhi(nm, qhi, ok1) ==
    r256__udiv_rem(nm, qhi, ok1,
        r256Sub(nm.n,
                r256Add(r256__umul256(qhi, nm.d.lo),
                        [lo |-> 0, hi |-> r256__umul256(qhi, nm.d.hi).lo])))

\* first digit of r256__udiv
r256__udiv_first(nm, dv1) ==
    r256__udiv_qhi(nm,
        r256__udiv_refine(dv1.q, dv1.rem, nm.n.lo, nm.d.lo, nm.d.hi),
        nm.n3 <= nm.d.hi /\ dv1.ok)

r256__udiv_normed(nm, divisor) ==
    IF nm.ovf
    THEN [q |-> R256_max, ok |-> divisor # R256_zero]
    ELSE LET r == r256__udiv_first(nm,
                      r256__udiv_estimate(nm.n3, nm.n.hi, nm.d.hi))
         IN [q |-> r.q, ok |-> divisor # R256_zero /\ r.ok]

\* q: the quotient; ok: every R256_ASSERT evaluated held.
r256__udiv_run(dividend, divisor) ==
    r256__udiv_normed(r256__norm(dividend, divisor), divisor)

r256__udiv(dividend, divisor) == r256__udiv_run(dividend, divisor).q

r256__umod_digit(nm, dv, d) ==
    [q |-> r256__udiv_refine(dv.q, dv.rem, nm.n.lo, nm.d.lo, nm.d.hi),
     ok |-> d # R256_zero /\ nm.n3 < nm.d.hi /\ dv.ok]

r256__umod_normed(nm, d) ==
    IF nm.ovf
    THEN [q |-> B128 - 1, ok |-> d # R256_zero]
    ELSE r256__umod_digit(nm, r256__udiv256(nm.n.hi, nm.n3, nm.d.hi), d)

\* q: the returned R256_U128; ok: every R256_ASSERT evaluated held.
r256__umod_run(n, d) == r256__umod_normed(r256__norm(n, d), d)

r256__umod(n, d) == r256__umod_run(n, d).q

-----------------------------------------------------------------------------
(* Fixed-point arithmetic *)

r256Mul(x, y) ==
    LET ta == IF r256IsNeg(x) THEN r256__neg(x) ELSE x
        tb == IF r256IsNeg(y) THEN r256__neg(y) ELSE y
        sign == r256IsNeg(x) # r256IsNeg(y)
        tc == r256__umul(ta, tb)
    IN r256Copy(IF sign THEN r256__neg(tc) ELSE tc)

r256Div_run_zeroIgnoresSign(x, y) ==
    LET negn == r256IsNeg(x)
        tn == IF negn THEN r256__neg(x) ELSE x
        negd == r256IsNeg(y)
        td == IF negd THEN r256__neg(y) ELSE y
        sign == negn # negd
        dv == r256__udiv_run(tn, td)
    IN IF y.lo = 0 /\ y.hi = 0
       THEN [dst |-> r256Copy(R256_max), called |-> {}, ok |-> TRUE]
       ELSE [dst |-> r256Copy(IF sign THEN r256__neg(dv.q) ELSE dv.q),
             called |-> {"r256__udiv"}, ok |-> dv.ok]

\* dst: the value written; called: the division routines gone into; ok: no
\* R256_ASSERT failed on the way.
r256Div_run(x, y) ==
    LET negn == r256IsNeg(x)
        tn == IF negn THEN r256__neg(x) ELSE x
        negd == r256IsNeg(y)
        td == IF negd THEN r256__neg(y) ELSE y
        sign == negn # negd
        dv == r256__udiv_run(tn, td)
    IN IF y.lo = 0 /\ y.hi = 0
       THEN [dst |-> IF negn THEN r256Copy(R256_min) ELSE r256Copy(R256_max),
             called |-> {}, ok |-> TRUE]
       ELSE [dst |-> r256Copy(IF sign THEN r256__neg(dv.q) ELSE dv.q),
             called |-> {"r256__udiv"}, ok |-> dv.ok]

r256Div(x, y) == r256Div_run(x, y).dst

r256Mod_run(x, y) ==
    LET negn == r256IsNeg(x)
        tn == IF negn THEN r256__neg(x) ELSE x
        negd == r256IsNeg(y)
        td == IF negd THEN r256__neg(y) ELSE y
        sign == negn # negd
        um == r256__umod_run(tn, td)
        tq == [lo |-> 0,
               hi |-> IF sign THEN (Not128(um.q) + 1) % B128 ELSE um.q]
    IN IF y.lo = 0 /\ y.hi = 0
       THEN [dst |-> IF negn THEN r256Copy(R256_min) ELSE r256Copy(R256_max),
             called |-> {}, ok |-> TRUE]
       ELSE [dst |-> r256Sub(x, r256Mul(tq, y)),
             called |-> {"r256__umod"}, ok |-> um.ok]

r256Mod(x, y) == r256Mod_run(x, y).dst

\* Newton-Raphson steps of r256Sqrt and r256Rsqrt.
MaxNewton == 7

\* The loop of r256Sqrt from step i on: newEst = (est + x / est) / 2.
\* steps: the loop bodies run; ok: no R256_ASSERT of r256__udiv failed.
RECURSIVE r256Sqrt_iter(_, _, _, _)
r256Sqrt_iter(x, est, i, ok) ==
    IF i >= MaxNewton
    THEN [dst |-> r256Copy(est), steps |-> i, called |-> {"r256__udiv"},
          ok |-> ok]
    ELSE LET dv == r256__udiv_run(x, est)
             newEst == r256Shr(r256Add(dv.q, est), 1)
         IN IF newEst.lo = est.lo /\ newEst.hi = est.hi
            THEN [dst |-> r256Copy(est), steps |-> i + 1,
                  called |-> {"r256__udiv"}, ok |-> ok /\ dv.ok]
            ELSE r256Sqrt_iter(x, newEst, i + 1, ok /\ dv.ok)

r256Sqrt_noSentinel(v) ==
    IF v.hi # 0
    THEN r256Sqrt_iter(v, r256Shr(v, (Bits - 1 - r256__clz128(v.hi)) \div 2),
                       0, TRUE)
    ELSE IF v.lo # 0
    THEN r256Sqrt_iter(v, r256Shl(v, (1 + r256__clz128(v.lo)) \div 2),
                       0, TRUE)
    ELSE [dst |-> R256_zero, steps |-> 0, called |-> {}, ok |-> TRUE]

\* dst: the value written; steps: the Newton steps run; called: the routine
\* the steps go into; ok: no R256_ASSERT failed.
r256Sqrt(v) ==
    IF S128(v.hi) < 0
    THEN [dst |-> r256Copy(R256_min), steps |-> 0, called |-> {},
          ok |-> TRUE]
    ELSE IF v.hi # 0
    THEN r256Sqrt_iter(v, r256Shr(v, (Bits - 1 - r256__clz128(v.hi)) \div 2),
                       0, TRUE)
    ELSE IF v.lo # 0
    THEN r256Sqrt_iter(v, r256Shl(v, (1 + r256__clz128(v.lo)) \div 2),
                       0, TRUE)
    ELSE [dst |-> R256_zero, steps |-> 0, called |-> {}, ok |-> TRUE]

\* The loop of r256Rsqrt from step i on, x already halved:
\* newEst = est * (threeHalves - x * est * est).
RECURSIVE r256Rsqrt_iter(_, _, _)
r256Rsqrt_iter(x, est, i) ==
    IF i >= MaxNewton
    THEN [dst |-> r256Copy(est), steps |-> i, called |-> {"r256__umul"},
          ok |-> TRUE]
    ELSE LET threeHalves == [lo |-> SignBit, hi |-> 1]
             newEst == r256__umul(est,
                           r256Sub(threeHalves,
                                   r256__umul(r256__umul(est, est), x)))
         IN IF newEst.lo = est.lo /\ newEst.hi = est.hi
            THEN [dst |-> r256Copy(est), steps |-> i + 1,
                  called |-> {"r256__umul"}, ok |-> TRUE]
            ELSE r256Rsqrt_iter(x, newEst, i + 1)

r256Rsqrt(v) ==
    IF S128(v.hi) < 0
    THEN [dst |-> r256Copy(R256_min), steps |-> 0, called |-> {},
          ok |-> TRUE]
    ELSE IF v.hi # 0
    THEN r256Rsqrt_iter(r256Shr(v, 1),
             [lo |-> CShl128(1, (Bits + r256__clz128(v.hi)) \div 2),
              hi |-> 0], 0)
    ELSE IF v.lo # 0
    THEN r256Rsqrt_iter(r256Shr(v, 1),
             [lo |-> 0, hi |-> CShl128(1, r256__clz128(v.lo) \div 2)], 0)
    ELSE [dst |-> R256_zero, steps |-> 0, called |-> {}, ok |-> TRUE]

-----------------------------------------------------------------------------
(* Decimal formatter and parser.  Strings are sequences of one-character   *)
(* strings; reading past the end of a string reads its NUL.                *)

BufSize == 256

Reserve == 41

R256_decimal == "."

DecDigits == <<"0", "1", "2", "3", "4", "5", "6", "7", "8", "9">>

LowerHex == <<"a", "b", "c", "d", "e", "f">>

UpperHex == <<"A", "B", "C", "D", "E", "F">>

IndexIn(c, chars) == CHOOSE i \in 1 .. Len(chars) : chars[i] = c

IsIn(c, chars) == \E i \in 1 .. Len(chars) : chars[i] = c

\* The precision the formatter uses when none is given: the number of
\* decimal places that tell any two R256_U128 fractions apart, i.e. the
\* least p with 10^p > 2^Bits (39 for 128 bits).
RECURSIVE PlacesFor(_, _)
PlacesFor(p, pow) == IF pow > B128 THEN p ELSE PlacesFor(p + 1, pow * 10)

DefaultPrecision == PlacesFor(0, 1)

Repeat(c, n) == [i \in 1 .. n |-> c]

Reverse(s) == [i \in 1 .. Len(s) |-> s[Len(s) + 1 - i]]

RECURSIVE r256__format_carry_noOut(_, _)
r256__format_carry_noOut(frac, c) ==
    IF c < 1 THEN [frac |-> frac, out |-> FALSE]
    ELSE IF frac[c] # "9"
    THEN [frac |-> [frac EXCEPT ![c] = DecDigits[IndexIn(frac[c], DecDigits) + 1]],
          out |-> FALSE]
    ELSE r256__format_carry_noOut([frac EXCEPT ![c] = "0"], c - 1)

\* Round up: propagate the carry backwards from digit c of the fraction.
\* out: the carry left the first digit and goes into the whole part.
RECURSIVE r256__format_carry(_, _)
r256__format_carry(frac, c) ==
    IF c < 1 THEN [frac |-> frac, out |-> TRUE]
    ELSE IF frac[c] # "9"
    THEN [frac |-> [frac EXCEPT ![c] = DecDigits[IndexIn(frac[c], DecDigits) + 1]],
          out |-> FALSE]
    ELSE r256__format_carry([frac EXCEPT ![c] = "0"], c - 1)

\* The fractional loop: frac holds buf[0 .. cursor-1], lo is tmp.lo.  With
\* tmp.lo = 0 every further pass stores '0' (r256__umul256(0, 10) is 0) up
\* to the pass with cursor = precision, which breaks without rounding.
RECURSIVE r256__format_frac(_, _, _, _)
r256__format_frac(frac, lo, precision, fullPrecision) ==
    IF lo # 0
    THEN IF Len(frac) = precision
         THEN IF lo >= SignBit
              THEN r256__format_carry(frac, Len(frac))
              ELSE [frac |-> frac, out |-> FALSE]
         ELSE LET t == r256__umul256(lo, 10)
              IN r256__format_frac(Append(frac, DecDigits[(t.hi % 10) + 1]),
                                   t.lo, precision, fullPrecision)
    ELSE IF fullPrecision /\ precision # 0
    THEN [frac |-> frac \o Repeat("0", precision - Len(frac)), out |-> FALSE]
    ELSE [frac |-> frac, out |-> FALSE]

\* The whole part, least significant digit first.
RECURSIVE r256__format_whole(_)
r256__format_whole(whole) ==
    <<DecDigits[(whole % 10) + 1]>>
        \o (IF whole \div 10 # 0 THEN r256__format_whole(whole \div 10)
            ELSE <<>>)

r256__format_run_noTrail(v, format) ==
    LET sign == r256IsNeg(v)
        tmp == IF sign THEN r256__neg(v) ELSE v
        width == IF format.width < 0 THEN 0 ELSE format.width
        fullPrecision == format.precision >= 0
        trail == 0
        precision == IF format.precision < 0 THEN DefaultPrecision
                     ELSE format.precision - trail
        fr == IF tmp.lo # 0 \/ format.decimal
              THEN r256__format_frac(<<>>, tmp.lo, precision, fullPrecision)
              ELSE [frac |-> <<>>, out |-> FALSE]
        whole == IF fr.out THEN (tmp.hi + 1) % B128 ELSE tmp.hi
        point == IF (tmp.lo # 0 \/ format.decimal)
                    /\ (format.decimal \/ precision # 0)
                 THEN <<R256_decimal>> ELSE <<>>
        wholeDigits == r256__format_whole(whole)
        used == Len(fr.frac) + Len(point) + Len(wholeDigits)
        padCnt0 == width - used - 1
        signChar == IF sign THEN <<"-">>
                    ELSE IF format.sign = "plus" THEN <<"+">>
                    ELSE IF format.sign = "space" THEN <<" ">>
                    ELSE <<>>
        padChar == IF format.zeroPad THEN "0" ELSE " "
        \* left padding
        leftSign == IF ~format.leftAlign /\ format.zeroPad
                    THEN signChar ELSE <<>>
        padCnt1 == IF ~format.leftAlign /\ format.zeroPad /\ signChar = <<>>
                   THEN padCnt0 + 1 ELSE padCnt0
        leftPad == IF ~format.leftAlign THEN Repeat(padChar, padCnt1)
                   ELSE <<>>
        padCnt2 == IF ~format.leftAlign /\ padCnt1 > 0 THEN 0 ELSE padCnt1
        midSign == IF format.leftAlign \/ ~format.zeroPad
                   THEN signChar ELSE <<>>
        padCnt3 == IF (format.leftAlign \/ ~format.zeroPad) /\ signChar = <<>>
                   THEN padCnt2 + 1 ELSE padCnt2
        \* decimal points at the separator when there is one, else at buf
        number == Reverse(wholeDigits) \o Reverse(point) \o fr.frac
        rightPad == IF format.leftAlign THEN Repeat(padChar, padCnt3)
                    ELSE <<>>
    IN [out |-> leftSign \o leftPad \o midSign \o number \o rightPad
                \o Repeat("0", trail),
        scratch |-> used]

\* out: every character handed to R256__WRITE, in order; scratch: the
\* number of bytes of buf[] the cursor went over.
r256__format_run(v, format) ==
    LET sign == r256IsNeg(v)
        tmp == IF sign THEN r256__neg(v) ELSE v
        width == IF format.width < 0 THEN 0 ELSE format.width
        fullPrecision == format.precision >= 0
        trail == IF format.precision >= 0
                    /\ format.precision > BufSize - Reserve
                 THEN format.precision - (BufSize - Reserve) ELSE 0
        precision == IF format.precision < 0 THEN DefaultPrecision
                     ELSE format.precision - trail
        fr == IF tmp.lo # 0 \/ format.decimal
              THEN r256__format_frac(<<>>, tmp.lo, precision, fullPrecision)
              ELSE [frac |-> <<>>, out |-> FALSE]
        whole == IF fr.out THEN (tmp.hi + 1) % B128 ELSE tmp.hi
        point == IF (tmp.lo # 0 \/ format.decimal)
                    /\ (format.decimal \/ precision # 0)
                 THEN <<R256_decimal>> ELSE <<>>
        wholeDigits == r256__format_whole(whole)
        used == Len(fr.frac) + Len(point) + Len(wholeDigits)
        padCnt0 == width - used - 1
        signChar == IF sign THEN <<"-">>
                    ELSE IF format.sign = "plus" THEN <<"+">>
                    ELSE IF format.sign = "space" THEN <<" ">>
                    ELSE <<>>
        padChar == IF format.zeroPad THEN "0" ELSE " "
        \* left padding
        leftSign == IF ~format.leftAlign /\ format.zeroPad
                    THEN signChar ELSE <<>>
        padCnt1 == IF ~format.leftAlign /\ format.zeroPad /\ signChar = <<>>
                   THEN padCnt0 + 1 ELSE padCnt0
        leftPad == IF ~format.leftAlign THEN Repeat(padChar, padCnt1)
                   ELSE <<>>
        padCnt2 == IF ~format.leftAlign /\ padCnt1 > 0 THEN 0 ELSE padCnt1
        midSign == IF format.leftAlign \/ ~format.zeroPad
                   THEN signChar ELSE <<>>
        padCnt3 == IF (format.leftAlign \/ ~format.zeroPad) /\ signChar = <<>>
                   THEN padCnt2 + 1 ELSE padCnt2
        \* decimal points at the separator when there is one, else at buf
        number == Reverse(wholeDigits) \o Reverse(point) \o fr.frac
        rightPad == IF format.leftAlign THEN Repeat(padChar, padCnt3)
                    ELSE <<>>
    IN [out |-> leftSign \o leftPad \o midSign \o number \o rightPad
                \o Repeat("0", trail),
        scratch |-> used]

\* A byte of the destination memory that no store has reached.
Unwritten == "?"

R256__WRITE_unguarded(c, dstp, room, old) == c

\* R256__WRITE(c): the byte at dst[dstp] after the macro, old before it;
\* c is stored when dstp < dst + dstSize.  room is dstSize after its
\* decrement.
R256__WRITE(c, dstp, room, old) == IF dstp < room THEN c ELSE old

\* The stores of r256__format, out being the characters it hands to
\* R256__WRITE.  ret: the return value; dst: the memory from dst[0] on,
\* i.e. the size bytes of the destination followed by the bytes behind it,
\* mem[i + 1] being dst[i].  dstp is advanced once per character.  A size
\* of 0 wraps in --dstSize to a room no output reaches.
r256__format_store(size, out) ==
    LET room == IF size >= 1 THEN size - 1 ELSE Len(out)
        dstp == Len(out)
        nul == IF dstp <= room THEN dstp ELSE room
    IN [ret |-> dstp,
        dst |-> [i \in 1 .. size + Len(out) + 1 |->
                    IF i = nul + 1 THEN "NUL"
                    ELSE IF i <= Len(out)
                    THEN R256__WRITE(out[i], i - 1, room, Unwritten)
                    ELSE Unwritten]]

r256__format(size, v, format) ==
    CHOOSE r \in {r256__format_store(size, out) :
                     out \in {r256__format_run(v, format).out}} : TRUE

r256ToStringOpt(size, v, format) == r256__format(size, v, format)

CharAt(s, i) == IF i >= 1 /\ i <= Len(s) THEN s[i] ELSE "NUL"

\* "VT" stands for the vertical tab, which has no escape in a TLA+ string.
IsSpace(c) == c \in {" ", "\t", "\r", "\n", "VT"}

RECURSIVE SkipSpace(_, _)
SkipSpace(s, i) == IF IsSpace(CharAt(s, i)) THEN SkipSpace(s, i + 1) ELSE i

\* A character the digit loops of r256FromString accept in this base.
IsBaseDigit_anyBase(c, base) ==
    \/ IsIn(c, DecDigits)
    \/ IsIn(c, LowerHex)
    \/ IsIn(c, UpperHex)

IsBaseDigit(c, base) ==
    \/ IsIn(c, DecDigits)
    \/ (base = 16 /\ IsIn(c, LowerHex))
    \/ (base = 16 /\ IsIn(c, UpperHex))

DigitValue(c) ==
    IF IsIn(c, DecDigits) THEN IndexIn(c, DecDigits) - 1
    ELSE IF IsIn(c, LowerHex) THEN IndexIn(c, LowerHex) + 9
    ELSE IndexIn(c, UpperHex) + 9

\* whole part: hi = hi * base + digit; returns hi and the stopping index.
RECURSIVE r256FromString_whole(_, _, _, _)
r256FromString_whole(s, i, base, hi) ==
    IF IsBaseDigit(CharAt(s, i), base)
    THEN r256FromString_whole(s, i + 1, base,
                              (hi * base + DigitValue(CharAt(s, i))) % B128)
    ELSE [hi |-> hi, i |-> i]

RECURSIVE r256FromString_last(_, _, _)
r256FromString_last(s, i, base) ==
    IF IsBaseDigit(CharAt(s, i), base)
    THEN r256FromString_last(s, i + 1, base) ELSE i

\* fractional part, from the last digit c back to the first one at exp.
RECURSIVE r256FromString_frac(_, _, _, _, _)
r256FromString_frac(s, c, exp, base, acc) ==
    IF c >= exp
    THEN LET dv == r256__udiv256(acc.lo, DigitValue(CharAt(s, c)) % B128,
                                 base % B128)
         IN r256FromString_frac(s, c - 1, exp, base,
                                [lo |-> dv.q, ok |-> acc.ok /\ dv.ok])
    ELSE acc

\* dst: the value stored; endptr: the index stored through endptr; called:
\* the division routine gone into; ok: no R256_ASSERT of it failed.
r256FromString(s) ==
    LET i0 == SkipSpace(s, 1)
        sign == CharAt(s, i0) = "-"
        i1 == IF CharAt(s, i0) \in {"-", "+"} THEN i0 + 1 ELSE i0
        hex == CharAt(s, i1) = "0" /\ CharAt(s, i1 + 1) \in {"x", "X"}
        base == IF hex THEN 16 ELSE 10
        i2 == IF hex THEN i1 + 2 ELSE i1
        w == r256FromString_whole(s, i2, base, 0)
        point == CharAt(s, w.i) = R256_decimal
        exp == w.i + 1
        j == IF point THEN r256FromString_last(s, exp, base) ELSE w.i
        fr == IF point
              THEN r256FromString_frac(s, j - 1, exp, base,
                                       [lo |-> 0, ok |-> TRUE])
              ELSE [lo |-> 0, ok |-> TRUE]
        val == [lo |-> fr.lo, hi |-> w.hi]
    IN [dst |-> IF sign THEN r256__neg(val) ELSE val, endptr |-> j,
        called |-> IF point /\ j > exp THEN {"r256__udiv256"} ELSE {},
        ok |-> fr.ok]

-----------------------------------------------------------------------------
(* State machine: operands are chosen at construction, each action is one  *)
(* call of a public function writing dst.                                  *)

Builds == {"stdc", "clang", "gnuc_bsr", "gnuc_lzcnt"}

NoFormat == [sign |-> "default", width |-> 0, precision |-> 0 - 1,
             zeroPad |-> FALSE, decimal |-> FALSE, leftAlign |-> FALSE]

InitCommon ==
    /\ op = "none"
    /\ dst = R256_zero
    /\ buf = <<>>
    /\ ret = 0
    /\ endptr = 0
    /\ called = {}
    /\ assertOk = TRUE
    /\ mem = [k \in {"a", "b", "dst"} |->
                  IF k = "a" THEN a ELSE IF k = "b" THEN b ELSE R256_zero]
    /\ dstAt = "dst"

InitAdd ==
    /\ build = "stdc"
    /\ a \in Operands
    /\ b \in Operands
    /\ other = R256_zero
    /\ count = 0
    /\ opt = NoFormat
    /\ dstSize = BufSize
    /\ InitCommon

Add ==
    /\ op = "none"
    /\ dst' = r256Add(a, b)
    /\ op' = "add"
    /\ called' = {}
    /\ assertOk' = TRUE
    /\ UNCHANGED <<inputs, buf, ret, endptr>>

Sub ==
    /\ op = "none"
    /\ dst' = r256Sub(a, b)
    /\ op' = "sub"
    /\ called' = {}
    /\ assertOk' = TRUE
    /\ UNCHANGED <<inputs, buf, ret, endptr>>

Neg ==
    /\ op = "none"
    /\ dst' = r256Neg(a)
    /\ op' = "neg"
    /\ called' = {}
    /\ assertOk' = TRUE
    /\ UNCHANGED <<inputs, buf, ret, endptr>>

NextAdd == Add \/ Sub \/ Neg

SpecAdd == InitAdd /\ [][NextAdd]_vars

InitMul ==
    /\ build = "stdc"
    /\ a \in Operands
    /\ b \in Operands
    /\ other = R256_zero
    /\ count = 0
    /\ opt = NoFormat
    /\ dstSize = BufSize
    /\ InitCommon

Mul ==
    /\ op = "none"
    /\ dst' = r256Mul(a, b)
    /\ op' = "mul"
    /\ called' = {}
    /\ assertOk' = TRUE
    /\ UNCHANGED <<inputs, buf, ret, endptr>>

NextMul == Mul

SpecMul == InitMul /\ [][NextMul]_vars

InitDiv ==
    /\ build \in Builds
    /\ a \in DivOperands
    /\ b \in DivOperands
    /\ other = R256_zero
    /\ count = 0
    /\ opt = NoFormat
    /\ dstSize = BufSize
    /\ InitCommon

Div ==
    /\ op = "none"
    /\ LET r == r256Div_run(a, b)
       IN dst' = r.dst /\ called' = r.called /\ assertOk' = r.ok
    /\ op' = "div"
    /\ UNCHANGED <<inputs, buf, ret, endptr>>

Mod ==
    /\ op = "none"
    /\ LET r == r256Mod_run(a, b)
       IN dst' = r.dst /\ called' = r.called /\ assertOk' = r.ok
    /\ op' = "mod"
    /\ UNCHANGED <<inputs, buf, ret, endptr>>

NextDiv == Div \/ Mod

SpecDiv == InitDiv /\ [][NextDiv]_vars

\* The same operations on the R256_STDC_ONLY build alone.
InitDivStdc ==
    /\ build = "stdc"
    /\ a \in Operands
    /\ b \in Operands
    /\ other = R256_zero
    /\ count = 0
    /\ opt = NoFormat
    /\ dstSize = BufSize
    /\ InitCommon

SpecDivStdc == InitDivStdc /\ [][NextDiv]_vars

\* The limb primitives on their own: a.lo and b.lo are the factors of
\* r256__umul256; a is the numerator (nlo = a.lo, nhi = a.hi) and b.lo the
\* divisor of r256__udiv256, which its callers give d # 0 and nhi < d.
InitLimb ==
    /\ build = "stdc"
    /\ a \in R256
    /\ b \in [lo : U128, hi : {0}]
    /\ other = R256_zero
    /\ count = 0
    /\ opt = NoFormat
    /\ dstSize = BufSize
    /\ InitCommon

Umul256 ==
    /\ op = "none"
    /\ dst' = r256__umul256(a.lo, b.lo)
    /\ op' = "umul256"
    /\ called' = {}
    /\ assertOk' = TRUE
    /\ UNCHANGED <<inputs, buf, ret, endptr>>

\* dst.lo is the quotient returned, dst.hi the remainder stored.
Udiv256 ==
    /\ op = "none"
    /\ b.lo # 0
    /\ a.hi < b.lo
    /\ \E r \in {r256__udiv256(a.lo, a.hi, b.lo)} :
           /\ dst' = [lo |-> r.q, hi |-> r.rem]
           /\ assertOk' = r.ok
    /\ op' = "udiv256"
    /\ called' = {}
    /\ UNCHANGED <<inputs, buf, ret, endptr>>

NextLimb == Umul256 \/ Udiv256

SpecLimb == InitLimb /\ [][NextLimb]_vars

\* Formats asking for the round-trip precision, everything else default.
RoundTripFormats == {[NoFormat EXCEPT !.precision = DefaultPrecision]}

InitStr ==
    /\ build = "stdc"
    /\ a \in R256
    /\ b = R256_zero
    /\ other = R256_zero
    /\ count = 0
    /\ opt \in RoundTripFormats
    /\ dstSize = BufSize
    /\ InitCommon

ToStringOpt ==
    /\ op = "none"
    /\ \E r \in {r256ToStringOpt(dstSize, a, opt)} :
           buf' = r.dst /\ ret' = r.ret
    /\ op' = "tostring"
    /\ called' = {}
    /\ assertOk' = (dstSize > 0)
    /\ UNCHANGED <<inputs, dst, endptr>>

FromString ==
    /\ op \in {"tostring", "string"}
    /\ LET r == r256FromString(buf)
       IN /\ dst' = r.dst
          /\ endptr' = r.endptr
          /\ called' = r.called
          /\ assertOk' = r.ok
    /\ op' = "fromstring"
    /\ UNCHANGED <<inputs, buf, ret>>

NextStr == ToStringOpt \/ FromString

SpecStr == InitStr /\ [][NextStr]_vars

\* Parsing the strings of up to MaxLen characters over ParseChars.
MaxLen == 4

ParseChars == {" ", "-", "0", "x", "7", "f", "."}

InitParse ==
    /\ build = "stdc"
    /\ a = R256_zero
    /\ b = R256_zero
    /\ other = R256_zero
    /\ count = 0
    /\ opt = NoFormat
    /\ dstSize = BufSize
    /\ op = "string"
    /\ dst = R256_zero
    /\ buf \in UNION {[1 .. n -> ParseChars] : n \in 0 .. MaxLen}
    /\ ret = 0
    /\ endptr = 0
    /\ called = {}
    /\ assertOk = TRUE
    /\ mem = [k \in {"a", "b", "dst"} |->
                  IF k = "a" THEN a ELSE IF k = "b" THEN b ELSE R256_zero]
    /\ dstAt = "dst"

SpecParse == InitParse /\ [][FromString]_vars

\* Shift amounts: every residue, negative amounts and amounts past 256.
Amounts == (0 - 2 * Bits - 1) .. (4 * Bits + 1)

InitShift ==
    /\ build = "stdc"
    /\ a \in Operands
    /\ b = R256_zero
    /\ other = R256_zero
    /\ count \in Amounts
    /\ opt = NoFormat
    /\ dstSize = BufSize
    /\ InitCommon

Shl ==
    /\ op = "none"
    /\ dst' = r256Shl(a, count)
    /\ op' = "shl"
    /\ called' = {}
    /\ assertOk' = TRUE
    /\ UNCHANGED <<inputs, buf, ret, endptr>>

Shr ==
    /\ op = "none"
    /\ dst' = r256Shr(a, count)
    /\ op' = "shr"
    /\ called' = {}
    /\ assertOk' = TRUE
    /\ UNCHANGED <<inputs, buf, ret, endptr>>

Sar ==
    /\ op = "none"
    /\ dst' = r256Sar(a, count)
    /\ op' = "sar"
    /\ called' = {}
    /\ assertOk' = TRUE
    /\ UNCHANGED <<inputs, buf, ret, endptr>>

NextShift == Shl \/ Shr \/ Sar

SpecShift == InitShift /\ [][NextShift]_vars

\* Sign, rounding and integer conversion of one operand.
InitRound ==
    /\ build = "stdc"
    /\ a \in R256
    /\ b = R256_zero
    /\ other = R256_zero
    /\ count \in Int64
    /\ opt = NoFormat
    /\ dstSize = BufSize
    /\ InitCommon

Floor ==
    /\ op = "none"
    /\ dst' = r256Floor(a)
    /\ op' = "floor"
    /\ called' = {}
    /\ assertOk' = TRUE
    /\ UNCHANGED <<inputs, buf, ret, endptr>>

Ceil ==
    /\ op = "none"
    /\ dst' = r256Ceil(a)
    /\ op' = "ceil"
    /\ called' = {}
    /\ assertOk' = TRUE
    /\ UNCHANGED <<inputs, buf, ret, endptr>>

Round ==
    /\ op = "none"
    /\ dst' = r256Round(a)
    /\ op' = "round"
    /\ called' = {}
    /\ assertOk' = TRUE
    /\ UNCHANGED <<inputs, buf, ret, endptr>>

ToInt ==
    /\ op = "none"
    /\ ret' \in r256ToInt(a)
    /\ op' = "toint"
    /\ called' = {}
    /\ assertOk' = TRUE
    /\ UNCHANGED <<inputs, dst, buf, endptr>>

FromInt ==
    /\ op = "none"
    /\ dst' = r256FromInt(count)
    /\ op' = "fromint"
    /\ called' = {}
    /\ assertOk' = TRUE
    /\ UNCHANGED <<inputs, buf, ret, endptr>>

Abs ==
    /\ op = "none"
    /\ dst' = r256Abs(a)
    /\ op' = "abs"
    /\ called' = {}
    /\ assertOk' = TRUE
    /\ UNCHANGED <<inputs, buf, ret, endptr>>

Nabs ==
    /\ op = "none"
    /\ dst' = r256Nabs(a)
    /\ op' = "nabs"
    /\ called' = {}
    /\ assertOk' = TRUE
    /\ UNCHANGED <<inputs, buf, ret, endptr>>

NextRound == Floor \/ Ceil \/ Round \/ ToInt \/ FromInt \/ Abs \/ Nabs

SpecRound == InitRound /\ [][NextRound]_vars

\* Square roots on every build; ret counts the Newton steps.
InitSqrt ==
    /\ build \in Builds
    /\ a \in R256
    /\ b = R256_zero
    /\ other = R256_zero
    /\ count = 0
    /\ opt = NoFormat
    /\ dstSize = BufSize
    /\ InitCommon

Sqrt ==
    /\ op = "none"
    /\ LET r == r256Sqrt(a)
       IN /\ dst' = r.dst
          /\ ret' = r.steps
          /\ called' = r.called
          /\ assertOk' = r.ok
    /\ op' = "sqrt"
    /\ UNCHANGED <<inputs, buf, endptr>>

Rsqrt ==
    /\ op = "none"
    /\ LET r == r256Rsqrt(a)
       IN /\ dst' = r.dst
          /\ ret' = r.steps
          /\ called' = r.called
          /\ assertOk' = r.ok
    /\ op' = "rsqrt"
    /\ UNCHANGED <<inputs, buf, endptr>>

NextSqrt == Sqrt \/ Rsqrt

SpecSqrt == InitSqrt /\ [][NextSqrt]_vars

\* Three operands for the order checks.
CmpSpan == 1

InitCmp ==
    /\ build = "stdc"
    /\ a \in DivOperands
    /\ b \in DivOperands
    /\ other \in [lo : Edge(CmpSpan), hi : Edge(CmpSpan)]
    /\ count = 0
    /\ opt = NoFormat
    /\ dstSize = BufSize
    /\ InitCommon

Cmp ==
    /\ op = "none"
    /\ ret' = r256Cmp(a, b)
    /\ op' = "cmp"
    /\ called' = {}
    /\ assertOk' = TRUE
    /\ UNCHANGED <<inputs, dst, buf, endptr>>

NextCmp == Cmp

SpecCmp == InitCmp /\ [][NextCmp]_vars

-----------------------------------------------------------------------------
(* The functions on objects in memory: m maps an object to its value, d,  *)
(* x and y are the objects the pointers dst, a (or v, src) and b point    *)
(* to, and the result is the memory after the call.  Loads and stores     *)
(* happen in the order of the statements, so a store through dst is seen  *)
(* by a later load through a pointer to the same object.                  *)

\* A function that works on local copies and stores its result last.
r256Copy_at(m, d, src) ==
    LET m1 == [m EXCEPT ![d].lo = src.lo]
    IN [m1 EXCEPT ![d].hi = src.hi]

r256__neg_at(m, d, x) ==
    IF m[x].lo # 0
    THEN LET m1 == [m EXCEPT ![d].lo = (Not128(m[x].lo) + 1) % B128]
         IN [m1 EXCEPT ![d].hi = Not128(m1[x].hi)]
    ELSE LET m1 == [m EXCEPT ![d].lo = 0]
         IN [m1 EXCEPT ![d].hi = (Not128(m1[x].hi) + 1) % B128]

r256Add_at_storeFirst(m, d, x, y) ==
    LET r == (m[x].lo + m[y].lo) % B128
        m1 == [m EXCEPT ![d].lo = r]
        carry == IF r < m1[x].lo THEN 1 ELSE 0
    IN [m1 EXCEPT ![d].hi = (m1[x].hi + m1[y].hi + carry) % B128]

r256Add_at(m, d, x, y) ==
    LET r == (m[x].lo + m[y].lo) % B128
        carry == IF r < m[x].lo THEN 1 ELSE 0
        m1 == [m EXCEPT ![d].lo = r]
    IN [m1 EXCEPT ![d].hi = (m1[x].hi + m1[y].hi + carry) % B128]

r256Sub_at(m, d, x, y) ==
    LET r == (m[x].lo + B128 - m[y].lo) % B128
        borrow == IF r > m[x].lo THEN 1 ELSE 0
        m1 == [m EXCEPT ![d].lo = r]
    IN [m1 EXCEPT
           ![d].hi = (m1[x].hi + 2 * B128 - m1[y].hi - borrow) % B128]

r256Floor_at(m, d, x) ==
    LET m1 == [m EXCEPT ![d].hi = m[x].hi]
    IN [m1 EXCEPT ![d].lo = 0]

r256Ceil_at(m, d, x) ==
    LET m1 == [m EXCEPT
                  ![d].hi = (m[x].hi + (IF m[x].lo # 0 THEN 1 ELSE 0)) % B128]
    IN [m1 EXCEPT ![d].lo = 0]

r256Round_at(m, d, x) ==
    LET m1 == [m EXCEPT ![d].hi = r256Round(m[x]).hi]
    IN [m1 EXCEPT ![d].lo = 0]

\* r256Mod: tq is a local; a and b are read again by the closing
\* r256Mul(&tq, &tq, b) and r256Sub(dst, a, &tq).
r256Mod_at(m, d, x, y) ==
    LET negn == r256IsNeg(m[x])
        tn == IF negn THEN r256__neg(m[x]) ELSE m[x]
        negd == r256IsNeg(m[y])
        td == IF negd THEN r256__neg(m[y]) ELSE m[y]
        um == r256__umod_run(tn, td)
        tq == [lo |-> 0,
               hi |-> IF negn # negd THEN (Not128(um.q) + 1) % B128
                      ELSE um.q]
    IN IF m[y].lo = 0 /\ m[y].hi = 0
       THEN r256Copy_at(m, d, IF negn THEN R256_min ELSE R256_max)
       ELSE r256Sub_at(("tq" :> r256Mul(tq, m[y])) @@ m, d, x, "tq")

\* The call of public function o with dst = &d, a = v = src = &a, b = &b
\* and amount = n.  r256Abs and r256Nabs end in r256Sub on their locals
\* inv and sign; the others named here work on local copies.
r256Call(o, m, d, n) ==
    LET sign == [lo |-> Sar128(m["a"].hi, Bits - 1),
                 hi |-> Sar128(m["a"].hi, Bits - 1)]
        inv == [lo |-> BitXor(m["a"].lo, sign.lo),
                hi |-> BitXor(m["a"].hi, sign.hi)]
        locals == ("inv" :> inv) @@ ("sign" :> sign) @@ m
    IN CASE o = "add" -> r256Add_at(m, d, "a", "b")
         [] o = "sub" -> r256Sub_at(m, d, "a", "b")
         [] o = "neg" -> r256__neg_at(m, d, "a")
         [] o = "abs" -> r256Sub_at(locals, d, "inv", "sign")
         [] o = "nabs" -> r256Sub_at(locals, d, "sign", "inv")
         [] o = "mul" -> r256Copy_at(m, d, r256Mul(m["a"], m["b"]))
         [] o = "div" -> r256Copy_at(m, d, r256Div(m["a"], m["b"]))
         [] o = "mod" -> r256Mod_at(m, d, "a", "b")
         [] o = "shl" -> r256Copy_at(m, d, r256Shl(m["a"], n))
         [] o = "shr" -> r256Copy_at(m, d, r256Shr(m["a"], n))
         [] o = "sar" -> r256Copy_at(m, d, r256Sar(m["a"], n))
         [] o = "floor" -> r256Floor_at(m, d, "a")
         [] o = "ceil" -> r256Ceil_at(m, d, "a")
         [] o = "round" -> r256Round_at(m, d, "a")
         [] o = "sqrt" -> r256Copy_at(m, d, r256Sqrt(m["a"]).dst)
         [] o = "rsqrt" -> r256Copy_at(m, d, r256Rsqrt(m["a"]).dst)

InitAlias ==
    /\ build = "stdc"
    /\ a \in [lo : Edge(CmpSpan), hi : Edge(CmpSpan)]
    /\ b \in [lo : Edge(CmpSpan), hi : Edge(CmpSpan)]
    /\ other = R256_zero
    /\ count \in {1, Bits + 1}
    /\ opt = NoFormat
    /\ dstSize = BufSize
    /\ InitCommon

\* Any of the functions, its dst pointing to a third object or to an input.
Call ==
    /\ op = "none"
    /\ \E o \in {"add", "sub", "neg", "abs", "nabs", "mul", "div", "mod",
                  "shl", "shr", "sar", "floor", "ceil", "round", "sqrt",
                  "rsqrt"} :
       \E d \in DOMAIN mem :
       \E r \in {r256Call(o, mem, d, count)} :
           /\ mem' = [k \in DOMAIN mem |-> r[k]]
           /\ dst' = r[d]
           /\ dstAt' = d
           /\ op' = o
    /\ called' = {}
    /\ assertOk' = TRUE
    /\ UNCHANGED <<build, a, b, other, count, opt, dstSize, buf, ret, endptr>>

SpecAlias == InitAlias /\ [][Call]_vars

\* Formatting into destinations of every size up to MaxDst.
MaxWidth == 6

MaxPrecision == 3

MaxDst == 8

\* Formats asking for more digits than the scratch buffer takes, with and
\* without a width beyond it.
LongFormats ==
    [sign : {"default"}, width : {0, BufSize + 4},
     precision : {BufSize - Reserve, BufSize - Reserve + 1, BufSize},
     zeroPad : {FALSE}, decimal : BOOLEAN, leftAlign : BOOLEAN]

Formats ==
    [sign : {"default", "plus", "space"}, width : {0 - 1, 0, MaxWidth},
     precision : (0 - 1) .. MaxPrecision, zeroPad : BOOLEAN,
     decimal : BOOLEAN, leftAlign : BOOLEAN]
        \cup LongFormats

InitFmt ==
    /\ build = "stdc"
    /\ a \in [lo : Edge(CmpSpan), hi : Edge(CmpSpan)]
    /\ b = R256_zero
    /\ other = R256_zero
    /\ count = 0
    /\ opt \in Formats
    /\ dstSize \in 1 .. MaxDst
    /\ InitCommon

NextFmt == ToStringOpt

SpecFmt == InitFmt /\ [][NextFmt]_vars

-----------------------------------------------------------------------------
(* C4: r256Add(a, b) is (a + b) mod 2^(2*Bits) on the raw integers, the     *)
(* carry out of lo going into hi; in particular add(a, zero) = a.           *)
AddIsModularSum ==
    op = "add" =>
        /\ Raw(dst) = (Raw(a) + Raw(b)) % (B128 * B128)
        /\ (b = R256_zero => dst = a)

AddCarryWitness ==
    /\ op = "add"
    /\ a.lo + b.lo >= B128
    /\ dst.hi = (a.hi + b.hi + 1) % B128

(* C5: r256Sub(a, b) is (a - b) mod 2^(2*Bits) with the borrow taken out   *)
(* of hi, and equals r256Add(a, r256Neg(b)) for every pair, b = min too.   *)
SubIsModularDifference ==
    op = "sub" =>
        /\ Raw(dst) = (Raw(a) + B128 * B128 - Raw(b)) % (B128 * B128)
        /\ dst = r256Add(a, r256Neg(b))

SubBorrowWitness ==
    /\ op = "sub"
    /\ a.lo < b.lo
    /\ dst.hi = (a.hi + 2 * B128 - b.hi - 1) % B128

(* C6: r256Neg(v) is the additive inverse modulo 2^(2*Bits):               *)
(* add(v, neg(v)) = zero for all v, and neg(min) = min.                    *)
NegIsAdditiveInverse ==
    op = "neg" =>
        /\ r256Add(a, dst) = R256_zero
        /\ (a = R256_min => dst = R256_min)

NegWitness ==
    /\ op = "neg"
    /\ a.lo = 0
    /\ a.hi # 0
    /\ dst.hi = B128 - a.hi

(* The exact product of the magnitudes shifted right by Bits and rounded   *)
(* half-up, negated when exactly one operand is negative, mod 2^(2*Bits).  *)
ExactMul(x, y) ==
    LET p == Mag(x) * Mag(y)
        q == (p \div B128) + (IF (p % B128) >= SignBit THEN 1 ELSE 0)
        m == q % (B128 * B128)
    IN IF r256IsNeg(x) # r256IsNeg(y)
       THEN (B128 * B128 - m) % (B128 * B128)
       ELSE m

(* C3: for all a and b, r256Mul(a, b) equals, modulo 2^(2*Bits), the exact *)
(* product |a|*|b| shifted right by Bits and rounded half-up, negated when *)
(* exactly one of a, b is negative.                                        *)
MulIsExactProduct ==
    op = "mul" => Raw(dst) = ExactMul(a, b)

(* C10: for every v, r256Mul(v, one) = v and r256Mul(v, zero) = zero.      *)
MulIdentityAndZero ==
    op = "mul" =>
        /\ (b = R256_one => dst = a)
        /\ (b = R256_zero => dst = R256_zero)

MulIdentityWitness ==
    /\ op = "mul"
    /\ b = R256_one
    /\ r256IsNeg(a)
    /\ a.lo # 0
    /\ dst = a

(* The exact quotient of the magnitudes, floor(|a| * 2^Bits / |b|), as a   *)
(* signed integer: negative when exactly one of a, b is negative.          *)
ExactDiv(x, y) ==
    LET q == (Mag(x) * B128) \div Mag(y)
    IN IF r256IsNeg(x) # r256IsNeg(y) THEN 0 - q ELSE q

Representable(n) == n >= 0 - SignBit * B128 /\ n < SignBit * B128

(* C2: for all a and all b # 0 whose exact quotient is representable,      *)
(* r256Div(a, b) is that quotient: floor(|a| * 2^Bits / |b|), negated when *)
(* exactly one of a, b is negative.                                        *)
DivIsExactQuotient ==
    (op = "div" /\ b # R256_zero /\ Representable(ExactDiv(a, b)))
        => Signed(dst) = ExactDiv(a, b)

(* C7: for every a, r256Div(a, zero) is R256_min when a is negative and    *)
(* R256_max otherwise, without an assertion failing and without the        *)
(* division routine being called.                                          *)
DivByZeroSaturates ==
    (op = "div" /\ b = R256_zero) =>
        /\ dst = (IF r256IsNeg(a) THEN R256_min ELSE R256_max)
        /\ assertOk
        /\ called = {}

DivByZeroWitness ==
    /\ op = "div"
    /\ b = R256_zero
    /\ r256IsNeg(a)
    /\ dst = R256_min
    /\ called = {}

(* C8: for every a >= 0 and b > 0 whose exact quotient is larger than      *)
(* R256_max, r256Div(a, b) is R256_max.                                    *)
DivOverflowSaturates ==
    (/\ op = "div"
     /\ ~r256IsNeg(a)
     /\ ~r256IsNeg(b)
     /\ b # R256_zero
     /\ ExactDiv(a, b) > Signed(R256_max))
        => dst = R256_max

(* The remainder of truncated division: a - q * b with q = trunc(a / b).   *)
ExactMod(x, y) ==
    LET r == Mag(x) % Mag(y)
    IN IF r256IsNeg(x) THEN 0 - r ELSE r

(* C9: for all a and all b # 0, r256Mod(a, b) = a - q * b where q is a / b *)
(* truncated toward zero: zero or of the sign of a, and smaller than |b|   *)
(* in magnitude.                                                           *)
ModIsTruncatedRemainder ==
    (op = "mod" /\ b # R256_zero) =>
        /\ Signed(dst) = ExactMod(a, b)
        /\ (dst = R256_zero \/ r256IsNeg(dst) = r256IsNeg(a))
        /\ Mag(dst) < Mag(b)

(* C1: for every value v, formatting v with the round-trip precision into  *)
(* a large enough buffer and parsing the string gives back v: the same hi  *)
(* and the same lo.                                                        *)
StringRoundTrip ==
    op = "fromstring" => (dst.hi = a.hi /\ dst.lo = a.lo)

(* C11: r256Cmp is the signed order of the two's-complement values: it    *)
(* returns -1, 0 or 1, the sign of a - b; cmp(a, b) = -cmp(b, a); it is 0  *)
(* exactly when lo and hi agree; and cmp(a, b) <= 0 with cmp(b, c) <= 0    *)
(* gives cmp(a, c) <= 0 (c is the operand other).                           *)
CmpIsTotalOrder ==
    op = "cmp" =>
        /\ ret \in {0 - 1, 0, 1}
        /\ ret = (IF Signed(a) < Signed(b) THEN 0 - 1
                  ELSE IF Signed(a) > Signed(b) THEN 1 ELSE 0)
        /\ ret = 0 - r256Cmp(b, a)
        /\ (ret = 0 <=> (a.lo = b.lo /\ a.hi = b.hi))
        /\ ((ret <= 0 /\ r256Cmp(b, other) <= 0) => r256Cmp(a, other) <= 0)

CmpWitness ==
    /\ op = "cmp"
    /\ r256IsNeg(a)
    /\ ~r256IsNeg(b)
    /\ ret = 0 - 1
    /\ b # other
    /\ r256Cmp(b, other) <= 0
    /\ r256Cmp(a, other) = 0 - 1

(* C12: for every v and every integer amount, negative and past 256 too,  *)
(* r256Shl, r256Shr and r256Sar give the shift by the amount mod 2*Bits:   *)
(* v * 2^n, v / 2^n on the raw bits, and floor(v / 2^n) on the signed      *)
(* value for sar (hi filled with the sign bit); a shift by 0 returns v.    *)
ShiftByAmountMod ==
    LET n == count % (2 * Bits)
        W == B128 * B128
    IN /\ op = "shl" => /\ Raw(dst) = (Raw(a) * (2 ^ n)) % W
                        /\ dst = r256Shl(a, n)
       /\ op = "shr" => /\ Raw(dst) = Raw(a) \div (2 ^ n)
                        /\ dst = r256Shr(a, n)
       /\ op = "sar" => /\ Raw(dst) = (Signed(a) \div (2 ^ n)) % W
                        /\ dst = r256Sar(a, n)
                        /\ r256IsNeg(dst) = r256IsNeg(a)
       /\ (op \in {"shl", "shr", "sar"} /\ n = 0) => dst = a

ShiftWitness ==
    /\ op = "sar"
    /\ count > 2 * Bits
    /\ count % (2 * Bits) > Bits
    /\ r256IsNeg(a)
    /\ a.hi # B128 - 1
    /\ dst.hi = B128 - 1
    /\ dst.lo = Sar128(a.hi, (count % (2 * Bits)) - Bits)

(* C13: for any v, r256Cmp(r256Floor(v), v) <= 0 and                       *)
(* r256Cmp(v, r256Ceil(v)) <= 0, and both results have lo = 0.             *)
FloorCeilBracket ==
    /\ op = "floor" => (r256Cmp(dst, a) <= 0 /\ dst.lo = 0)
    /\ op = "ceil" => (r256Cmp(a, dst) <= 0 /\ dst.lo = 0)

\* v lies above the largest integer: hi is the largest positive hi and lo
\* is not zero.
AboveLargestInteger(v) == v.hi = SignBit - 1 /\ v.lo # 0

(* C13 as amended: floor(v) <= v and lo = 0 for any v; v <= ceil(v) with   *)
(* lo = 0 for any v that is not above the largest integer, and there       *)
(* r256Ceil(v) wraps to R256_min.                                          *)
FloorCeilBracketInRange ==
    /\ op = "floor" => (r256Cmp(dst, a) <= 0 /\ dst.lo = 0)
    /\ op = "ceil" =>
           /\ dst.lo = 0
           /\ (~AboveLargestInteger(a) =>
                  /\ r256Cmp(a, dst) <= 0
                  /\ Signed(dst) - Signed(a) < B128)
           /\ (AboveLargestInteger(a) => dst = R256_min)

FloorCeilWitness ==
    /\ op = "ceil"
    /\ r256IsNeg(a)
    /\ a.lo # 0
    /\ dst.hi = (a.hi + 1) % B128
    /\ r256Cmp(a, dst) < 0

(* C14: r256Round rounds halfway values away from zero: for v >= 0 it is   *)
(* r256Floor(v + 0.5) and for v < 0 it is r256Ceil(v - 0.5), the sum and   *)
(* difference being r256Add and r256Sub with 0.5 = (hi 0, lo 2^(Bits-1)).  *)
RoundIsHalfAwayFromZero ==
    LET half == [lo |-> SignBit, hi |-> 0]
    IN op = "round" =>
           dst = (IF r256IsNeg(a) THEN r256Ceil(r256Sub(a, half))
                  ELSE r256Floor(r256Add(a, half)))

RoundWitness ==
    /\ op = "round"
    /\ r256IsNeg(a)
    /\ a.lo = SignBit
    /\ dst.hi = a.hi
    /\ dst.lo = 0

\* The integer part of v fits in 64 signed bits.
FitsInt64(v) == S128(v.hi) \in Int64

(* C15: r256ToInt truncates toward zero: when the integer part fits in 64  *)
(* signed bits the result is hi for v >= 0 and for v < 0 with lo = 0, and  *)
(* hi + 1 for v < 0 with lo # 0; r256ToInt(r256FromInt(n)) = n for every   *)
(* 64-bit signed n.                                                        *)
ToIntTruncates ==
    /\ (op = "toint" /\ FitsInt64(a)) =>
           /\ ret = (IF r256IsNeg(a) /\ a.lo # 0 THEN S128(a.hi) + 1
                     ELSE S128(a.hi))
           /\ ret = (IF r256IsNeg(a) THEN 0 - (Mag(a) \div B128)
                     ELSE Mag(a) \div B128)
    /\ op = "fromint" =>
           /\ dst.lo = 0
           /\ Signed(dst) = count * B128
           /\ r256ToInt(dst) = {count}

ToIntWitness ==
    /\ op = "toint"
    /\ FitsInt64(a)
    /\ r256IsNeg(a)
    /\ a.lo # 0
    /\ ret = S128(a.hi) + 1

(* C16: r256Abs(v) is v when v is not negative and r256Neg(v) when it is,  *)
(* so r256Abs(min) = min; r256Nabs(v) = r256Neg(r256Abs(v)) for every v.   *)
AbsAndNabs ==
    /\ op = "abs" =>
           /\ dst = (IF r256IsNeg(a) THEN r256Neg(a) ELSE a)
           /\ (a = R256_min => dst = R256_min)
    /\ op = "nabs" => dst = r256Neg(r256Abs(a))

AbsWitness ==
    /\ op = "abs"
    /\ r256IsNeg(a)
    /\ a.lo # 0
    /\ a # R256_min
    /\ Signed(dst) = 0 - Signed(a)

(* C17: for every negative v, r256Sqrt(v) and r256Rsqrt(v) return         *)
(* R256_min without a Newton step, and r256Sqrt(zero) returns zero.        *)
RootSentinels ==
    /\ (op \in {"sqrt", "rsqrt"} /\ r256IsNeg(a)) =>
           (dst = R256_min /\ ret = 0 /\ called = {})
    /\ (op = "sqrt" /\ a = R256_zero) => dst = R256_zero

RootSentinelWitness ==
    /\ op = "sqrt"
    /\ r256IsNeg(a)
    /\ a.lo # 0
    /\ dst = R256_min
    /\ ret = 0

(* C18: r256Rsqrt(zero) returns the sentinel R256_min.                     *)
RsqrtZeroIsMin ==
    (op = "rsqrt" /\ a = R256_zero) => dst = R256_min

\* |r256Mul(r, r) - v| in units of R256_smallest.
SquareError(r, v) ==
    LET sq == Signed(r256Mul(r, r))
    IN IF sq > Signed(v) THEN sq - Signed(v) ELSE Signed(v) - sq

\* 2^-60 in units of R256_smallest: the low 68 of the 128 fraction bits of
\* R256, the same share of the fraction at the model's width.
SqrtTolerance == 2 ^ (Bits - (60 * Bits) \div 128)

(* C19: for every v >= 0 the Newton loop of r256Sqrt runs at most 7 steps  *)
(* and the result r has |r256Mul(r, r) - v| <= 2^-60; the square root of   *)
(* the exact square k * k of an integer k is exactly k.                    *)
SqrtConverges ==
    (op = "sqrt" /\ ~r256IsNeg(a)) =>
        /\ ret <= MaxNewton
        /\ SquareError(dst, a) <= SqrtTolerance
        /\ \A k \in 0 .. (B64 - 1) :
               a = [lo |-> 0, hi |-> k * k] => dst = [lo |-> 0, hi |-> k]

(* C20: for every v, every format and every dstSize >= 1, the to-string   *)
(* functions return the length of the full formatted string whatever      *)
(* dstSize is, store nothing outside dst[0 .. dstSize-1], store a prefix   *)
(* of the full string, and end it with NUL at index min(length,            *)
(* dstSize - 1).                                                           *)
ToStringFitsDst ==
    (op = "tostring" /\ dstSize >= 1) =>
        \A full \in {r256__format_run(a, opt).out} :
            LET n == IF Len(full) < dstSize - 1 THEN Len(full)
                     ELSE dstSize - 1
            IN /\ ret = Len(full)
               /\ \A i \in 1 .. Len(buf) : i > dstSize => buf[i] = Unwritten
               /\ \A i \in 1 .. n : buf[i] = full[i]
               /\ buf[n + 1] = "NUL"

ToStringTruncatedWitness ==
    /\ op = "tostring"
    /\ dstSize >= 2
    /\ ret > dstSize
    /\ buf[1] = "-"
    /\ buf[dstSize] = "NUL"
    /\ buf[dstSize + 1] = Unwritten

(* C21: with the default format (precision -1, width 0) the formatted     *)
(* string of any v needs at most 82 bytes with its NUL; with a precision   *)
(* p >= 0 and a width w it needs at most max(w, p + 41) + 1 bytes with its *)
(* NUL, for every p and w.                                                 *)
ToStringSizeBound ==
    op = "tostring" =>
        /\ (opt.precision < 0 /\ opt.width <= 0) => ret + 1 <= 2 * Reserve
        /\ opt.precision >= 0 =>
               ret + 1 <= (IF opt.width > opt.precision + Reserve
                           THEN opt.width ELSE opt.precision + Reserve) + 1

\* The decimal number written in s up to its NUL: n is the digits read as
\* one integer, k the number of digits after the decimal point.
RECURSIVE PrintedNumber(_, _, _)
PrintedNumber(s, i, acc) ==
    IF CharAt(s, i) = "NUL" THEN acc
    ELSE IF CharAt(s, i) = R256_decimal
    THEN PrintedNumber(s, i + 1, [acc EXCEPT !.point = TRUE])
    ELSE IF IsIn(CharAt(s, i), DecDigits)
    THEN PrintedNumber(s, i + 1,
             [n |-> 10 * acc.n + DigitValue(CharAt(s, i)),
              k |-> IF acc.point THEN acc.k + 1 ELSE acc.k,
              point |-> acc.point])
    ELSE PrintedNumber(s, i + 1, acc)

\* |v| * 10^p rounded half-up to an integer.
RoundedHalfUp(v, p) == (2 * Mag(v) * (10 ^ p) + B128) \div (2 * B128)

Unpadded(v, format) == r256__format_run(v, [format EXCEPT !.width = 0]).out

(* C23: with leftAlign set all the padding up to width is trailing spaces  *)
(* after the number, with zeroPad set as well: leftAlign disables the      *)
(* zero padding and no '0' padding character follows the digits.           *)
LeftAlignPadsWithSpaces ==
    (op = "tostring" /\ opt.leftAlign /\ ret < dstSize) =>
        \A number \in {Unpadded(a, opt)} :
            /\ \A i \in 1 .. Len(number) : buf[i] = number[i]
            /\ \A i \in (Len(number) + 1) .. ret : buf[i] = " "

(* C24: width is a minimum: for every v and every format of width w the    *)
(* returned length is at least w, and exactly w when the number without    *)
(* padding is shorter than w.                                              *)
WidthIsMinimum ==
    op = "tostring" =>
        /\ ret >= opt.width
        /\ Len(Unpadded(a, opt)) < opt.width => ret = opt.width

\* The characters that are digits of a number, by whether it began with 0x.
NumberDigits(hex) ==
    {"0", "1", "2", "3", "4", "5", "6", "7", "8", "9"}
        \cup (IF hex THEN {"a", "b", "c", "d", "e", "f",
                           "A", "B", "C", "D", "E", "F"}
              ELSE {})

\* The first n characters of s have the form [whitespace][sign][0x|0X]
\* digits[separator digits], the letters being digits after 0x or 0X only.
IsNumberPrefix(s, n) ==
    \E i0 \in 0 .. n : \E i1 \in {i0, i0 + 1} : \E i2 \in {i1, i1 + 2} :
    \E i3 \in i2 .. n :
        /\ i2 <= n
        /\ \A k \in 1 .. i0 : IsSpace(s[k])
        /\ i1 = i0 + 1 => s[i1] \in {"-", "+"}
        /\ i2 = i1 + 2 => (s[i1 + 1] = "0" /\ s[i2] \in {"x", "X"})
        /\ \A k \in (i2 + 1) .. i3 :
               s[k] \in NumberDigits(i2 = i1 + 2)
        /\ i3 < n => s[i3 + 1] = R256_decimal
        /\ \A k \in (i3 + 2) .. n :
               s[k] \in NumberDigits(i2 = i1 + 2)

(* C25: r256FromString consumes exactly the longest prefix of the form     *)
(* [whitespace][sign][0x|0X]digits[separator digits], a-f and A-F being    *)
(* digits only after 0x or 0X, and *endptr is the first character it did   *)
(* not consume, the NUL when the whole string is a number.                 *)
FromStringConsumesNumber ==
    op = "fromstring" =>
        /\ endptr \in 1 .. (Len(buf) + 1)
        /\ IsNumberPrefix(buf, endptr - 1)
        /\ \A n \in endptr .. Len(buf) : ~IsNumberPrefix(buf, n)

FromStringWitness ==
    /\ op = "fromstring"
    /\ Len(buf) = 4
    /\ buf[1] = "0" /\ buf[2] = "x" /\ buf[3] = "f" /\ buf[4] = "x"
    /\ endptr = 4

(* C26: r256__umul256(a, b) is the exact 256-bit product of its operands, *)
(* hi * 2^128 + lo = a * b, for every pair of R256_U128 values, those     *)
(* whose two halves are all ones included.                                *)
Umul256IsExact ==
    op = "umul256" => dst.hi * B128 + dst.lo = a.lo * b.lo

(* C27: for d # 0 and nhi < d, r256__udiv256 returns q and rem with       *)
(* nhi * 2^128 + nlo = q * d + rem and 0 <= rem < d, the quotient digit   *)
(* estimated as all ones included.                                        *)
Udiv256IsExact ==
    op = "udiv256" =>
        /\ a.hi * B128 + a.lo = dst.lo * b.lo + dst.hi
        /\ dst.hi < b.lo

(* C28: no assertion of r256__udiv, r256__umod or r256__udiv256 fails on  *)
(* valid input of the public functions: r256Div and r256Mod of every a   *)
(* by every b # 0.                                                         *)
DivAssertionsHold ==
    (op \in {"div", "mod"} /\ b # R256_zero) => assertOk

(* C29: each function that writes a destination leaves in it the same    *)
(* result when dst is one of its inputs as when dst is a third object,    *)
(* and leaves every input that dst does not point to unchanged.           *)
AliasingIsSafe ==
    op # "none" =>
        \A ref \in {r256Call(op, [k \in DOMAIN mem |->
                                     IF k = "a" THEN a
                                     ELSE IF k = "b" THEN b ELSE R256_zero],
                             "dst", count)} :
            /\ mem[dstAt] = ref["dst"]
            /\ \A k \in {"a", "b"} \ {dstAt} : mem[k] = ref[k]
            /\ ref["a"] = a
            /\ ref["b"] = b

AliasedAddWitness ==
    /\ op = "add"
    /\ dstAt = "a"
    /\ a.lo + b.lo >= B128
    /\ mem["a"] = r256Add(a, b)
    /\ mem["a"] # a
    /\ mem["b"] = b

(* C30: in r256__format the cursor never leaves buf[256]: it goes over at *)
(* most 215 fractional digits, one separator and the digits of the whole  *)
(* part, which are at most those of 2^127 (39); a precision beyond 215 is *)
(* written as trailing '0' characters only.                               *)
FormatCursorStaysInBuf ==
    op = "tostring" =>
        \A r \in {r256__format_run(a, opt)} :
            /\ r.scratch <= BufSize
            /\ r.scratch <= (BufSize - Reserve) + 1
                               + Len(r256__format_whole(SignBit))
            /\ Len(r256__format_whole(SignBit)) <= Reserve - 2
            /\ opt.precision > BufSize - Reserve =>
                   /\ Len(r.out) >= r.scratch + opt.precision
                                        - (BufSize - Reserve)
                   /\ \A i \in 1 .. (opt.precision - (BufSize - Reserve)) :
                          r.out[Len(r.out) + 1 - i] = "0"

FormatCursorWitness ==
    /\ op = "tostring"
    /\ opt.precision = BufSize
    /\ opt.width = 0
    /\ a = [lo |-> SignBit, hi |-> 0]
    /\ ret = BufSize + 2
    /\ dstSize > 3
    /\ buf[3] = "5"

====
